---- MODULE Spec2Model ----
(***************************************************************************)
(* A model of the dependency-pipelines build engine: RuleBuilder / Rule    *)
(* (src/lib/rules.ts), PipelineBuilder / Pipeline.exec                     *)
(* (src/lib/pipelines.ts) and the filesystem facade (fsx).                 *)
(*                                                                         *)
(* Strings are sequences of tokens ("app", ".min", ".js", "\\1"); the      *)
(* empty sequence stands for every falsy string-or-nothing value of the    *)
(* code (null, undefined, ""), which the code only ever tests with || or   *)
(* a truthiness check.  Timestamps are naturals, 0 standing for "no        *)
(* mtime" (mtimeSafe's null, or an entry without an mtime property).       *)
(***************************************************************************)
EXTENDS Integers, Sequences, FiniteSets, TLC

VARIABLES
    debug,      \* whether process.env.DEBUG was set when fsx was loaded
    program,    \* the callback handed to Pipeline.build: the add calls it makes
    phase,      \* "building" | "ready" | "failed": Pipeline.build in progress, done, thrown
    ruleSet,    \* PipelineBuilder.ruleSet / Pipeline.ruleSet, in insertion order
    added,      \* history: one record per PipelineBuilder.add call
    fs,         \* the filesystem: path -> [mtime, contents, err], mtime 0 = absent,
                \* err the error code fs.stat fails with ("" when it succeeds)
    now,        \* the wall clock read by new Date()
    stack,      \* the chain of suspended exec invocations, innermost last
    parked,     \* the chain of another top-level call, waiting for its I/O
    ret,        \* the settled promise of the exec invocation that just ended
    nextId,     \* history: number of exec invocations started so far
    results,    \* history: the settled top-level exec calls
    log         \* history: what the exec invocations did

vars == <<debug, program, phase, ruleSet, added, fs, now, stack, parked, ret, nextId, results,
          log>>

----------------------------------------------------------------------------
(* Bounds *)

MaxCalls == 2       \* top-level exec calls on one Pipeline
MaxInitTime == 2    \* newest mtime of a file present before the first call
MaxTime == 3        \* last value of the clock
MaxDepth == 4       \* exec invocations suspended one inside the other
MaxDeclarations == 3    \* addDependency calls on one RuleBuilder
MaxEntries == 2     \* resolved dependencies handed to one SimpleContext

----------------------------------------------------------------------------
(* Strings *)

Null == <<>>

Or(a, b) == IF a # Null THEN a ELSE b

AppJs == <<"app", ".js">>
AppMinJs == <<"app", ".min", ".js">>
LibJs == <<"lib", ".js">>
Paths == {AppJs, AppMinJs, LibJs}

IsSuffix(suf, s) ==
    /\ Len(suf) <= Len(s)
    /\ SubSeq(s, Len(s) - Len(suf) + 1, Len(s)) = suf

\* Index of the first occurrence of needle in s, 0 when there is none.
IndexOf(s, needle) ==
    LET hits == {i \in 1..(Len(s) - Len(needle) + 1) :
                    SubSeq(s, i, i + Len(needle) - 1) = needle}
    IN  IF hits = {} THEN 0
        ELSE CHOOSE i \in hits : \A j \in hits : i <= j

----------------------------------------------------------------------------
\* Regular expressions.  A RegExp object is [kind, lit, flags, lastIndex],
\* its source one of
\*   kind "exact",  lit s    the string s, anchored at both ends
\*   kind "suffix", lit s    one capture group taking any text, followed
\*                           by s, anchored at both ends
\* flags is "", "g" (global) or "y" (sticky), and lastIndex is the object's
\* mutable property of that name.  A match array is <<whole, group 1, ...>>:
\* m[k + 1] is the code's m[k].  NoMatch is exec's null.

NoMatch == <<>>

\* The match of the source against input searched from index from: the
\* sources being anchored at the start, there is none from a later index.
Match(pattern, input, from) ==
    IF from > 0 THEN NoMatch
    ELSE IF pattern.kind = "exact"
    THEN IF input = pattern.lit THEN <<input>> ELSE NoMatch
    ELSE IF IsSuffix(pattern.lit, input)
         THEN <<input, SubSeq(input, 1, Len(input) - Len(pattern.lit))>>
         ELSE NoMatch

\* A global or sticky RegExp searches from its lastIndex and moves it.
Stateful(pattern) == pattern.flags \in {"g", "y"}

\* RegExp.prototype.exec: what it returns ...
RegExpExec(pattern, input) ==
    Match(pattern, input, IF Stateful(pattern) THEN pattern.lastIndex ELSE 0)

\* ... and the lastIndex it leaves: the end of the match, 0 after a failed
\* search; untouched without the g or y flag.
LastIndex(pattern, input) ==
    IF ~Stateful(pattern) THEN pattern.lastIndex
    ELSE IF RegExpExec(pattern, input) # NoMatch THEN Len(input)
    ELSE 0

\* RegExp.prototype.test is exec compared with null, lastIndex included.
RegExpTest(pattern, input) == RegExpExec(pattern, input) # NoMatch

\* The text of capture group k of match m; "undefined" when m has no such
\* group (what a replacement callback returning undefined is turned into).
Group(m, k) == IF k >= 0 /\ k + 1 <= Len(m) THEN m[k + 1] ELSE <<"undefined">>

\* The placeholder tokens of a template and the group each one names.
Placeholders == {"\\1"}
GroupOf(tok) == 1

\* Back-reference substitution: every placeholder of tpl replaced by the
\* text of its group.
RECURSIVE Substitute(_, _)
Substitute(tpl, m) ==
    IF tpl = Null THEN Null
    ELSE (IF Head(tpl) \in Placeholders
          THEN Group(m, GroupOf(Head(tpl)))
          ELSE <<Head(tpl)>>) \o Substitute(Tail(tpl), m)

\* parseInt(s, 10): the leading decimal digits of s, -1 standing for NaN.
Digits == {"0", "1", "2", "3", "4", "5", "6", "7", "8", "9"}
DigitValue(tok) ==
    CASE tok = "0" -> 0 [] tok = "1" -> 1 [] tok = "2" -> 2 [] tok = "3" -> 3
      [] tok = "4" -> 4 [] tok = "5" -> 5 [] tok = "6" -> 6 [] tok = "7" -> 7
      [] tok = "8" -> 8 [] tok = "9" -> 9
ParseInt(s) == IF s # Null /\ Head(s) \in Digits THEN DigitValue(Head(s)) ELSE -1

\* tpl.replace(input, match => m[parseInt(match, 10)]): the first occurrence
\* of the string input in tpl is replaced, nothing else.
ReplaceInput(tpl, input, m) ==
    LET i == IndexOf(tpl, input)
    IN  IF i = 0 THEN tpl
        ELSE SubSeq(tpl, 1, i - 1) \o Group(m, ParseInt(input))
                \o SubSeq(tpl, i + Len(input), Len(tpl))

----------------------------------------------------------------------------
(* Dependency generators *)

NamedDependency(name, value) == [name |-> name, value |-> value]

\* What a DependencyGenerator function returns.  The functions are
\*   [fn |-> "closure", value |-> s]   the () => dependency of addDependency
\*   [fn |-> "user", returns |-> r]    a caller's function, r one of
\*       [type |-> "null"], [type |-> "string", expr |-> e],
\*       [type |-> "named", name |-> n, expr |-> e],
\*       [type |-> "iterator", items |-> <<r1, ...>>]
\*     an expr being the string the function computes from the match.
RECURSIVE Eval(_, _)
Eval(r, m) ==
    CASE r.type = "null" -> r
      [] r.type = "string" -> [type |-> "string", value |-> Substitute(r.expr, m)]
      [] r.type = "named" -> [type |-> "named", name |-> r.name,
                              value |-> Substitute(r.expr, m)]
      [] r.type = "iterator" ->
            [type |-> "iterator", items |-> [i \in DOMAIN r.items |-> Eval(r.items[i], m)]]

CallGenerator(g, input, m) ==
    IF g.fn = "closure" THEN [type |-> "string", value |-> g.value]
    ELSE Eval(g.returns, m)

\* The for loop of SimpleDependencyGeneratorAdapter.create over an iterator.
RECURSIVE YieldItems(_)
YieldItems(items) ==
    IF items = <<>> THEN <<>>
    ELSE LET item == Head(items)
         IN  (CASE item.type = "null" -> <<>>
                [] item.type = "string" -> <<NamedDependency(Null, item.value)>>
                [] OTHER -> <<NamedDependency(item.name, item.value)>>)
             \o YieldItems(Tail(items))

\* SimpleDependencyGeneratorAdapter.create, the generator being a string
\* ([type |-> "string", value |-> s]) or a function ([type |-> "function", ...]).
SimpleCreate(generator, input, m) ==
    IF generator.type = "string"
    THEN <<NamedDependency(Null, ReplaceInput(generator.value, input, m))>>
    ELSE LET result == CallGenerator(generator, input, m)
         IN  CASE result.type = "null" -> <<>>
               [] result.type = "string" -> <<NamedDependency(Null, result.value)>>
               [] result.type = "named" -> <<NamedDependency(result.name, result.value)>>
               [] result.type = "iterator" -> YieldItems(result.items)

\* DependencyGeneratorAdapter.create of the three adapters:
\*   [adapter |-> "none"]                                   NoDependencies
\*   [adapter |-> "simple", generator |-> g]                SimpleDependencyGeneratorAdapter
\*   [adapter |-> "composite", first |-> a, second |-> b]   CompositeDependencyGeneratorAdapter
\* The composite yielding its second generator before its first.
RECURSIVE Create_SecondFirst(_, _, _)
Create_SecondFirst(adapter, input, m) ==
    CASE adapter.adapter = "none" -> <<>>
      [] adapter.adapter = "simple" -> SimpleCreate(adapter.generator, input, m)
      [] adapter.adapter = "composite" ->
            Create_SecondFirst(adapter.second, input, m)
                \o Create_SecondFirst(adapter.first, input, m)

RECURSIVE Create(_, _, _)
Create(adapter, input, m) ==
    CASE adapter.adapter = "none" -> <<>>
      [] adapter.adapter = "simple" -> SimpleCreate(adapter.generator, input, m)
      [] adapter.adapter = "composite" ->
            Create(adapter.first, input, m) \o Create(adapter.second, input, m)

----------------------------------------------------------------------------
(* Rules and the rule builder *)

NullAction == [act |-> "null"]
NullAdapter == [adapter |-> "null"]
NoDependencies == [adapter |-> "none"]

\* assert.neitherNullNorUndefined(x, name): the TypeError it throws, or "ok".
NeitherNullNorUndefined(isNull, name) ==
    IF isNull THEN [error |-> "TypeError", text |-> <<name, "must not be null!">>]
    ELSE [error |-> "ok"]

\* new Rule(pattern, action, dependencies, ...decorators): [ok |-> TRUE, rule |-> r]
\* or [ok |-> FALSE, error |-> e] when the constructor throws.
RuleNew(pattern, action, dependencies, decorators) ==
    LET a1 == NeitherNullNorUndefined(pattern.kind = "null", "pattern")
        a2 == NeitherNullNorUndefined(dependencies = NullAdapter, "dependencies")
    IN  IF a1.error # "ok" THEN [ok |-> FALSE, error |-> a1]
        ELSE IF a2.error # "ok" THEN [ok |-> FALSE, error |-> a2]
        ELSE [ok |-> TRUE,
              rule |-> [pattern |-> pattern,
                        action |-> action,
                        dependencies |-> IF dependencies # NullAdapter
                                         THEN dependencies ELSE NoDependencies,
                        decorators |-> decorators]]

\* Rule.evalDependencies: [matched |-> FALSE] is its null.
EvalDependencies(rule, input) ==
    LET m == RegExpExec(rule.pattern, input)
    IN  IF m = NoMatch THEN [matched |-> FALSE]
        ELSE [matched |-> TRUE, deps |-> Create(rule.dependencies, input, m)]

\* new RuleBuilder(pattern)
RuleBuilderNew(pattern) ==
    [pattern |-> pattern, action |-> NullAction, decorators |-> <<>>,
     dependencies |-> NullAdapter]

\* RuleBuilder.addDependency: a string is wrapped into () => dependency.
AddDependency(b, dependency) ==
    LET generator ==
            [adapter |-> "simple",
             generator |-> IF dependency.type = "string"
                           THEN [type |-> "function", fn |-> "closure",
                                 value |-> dependency.value]
                           ELSE dependency]
    IN  [b EXCEPT !.dependencies =
            IF b.dependencies = NullAdapter THEN generator
            ELSE [adapter |-> "composite", first |-> b.dependencies,
                  second |-> generator]]

AddDecorators(b, decorators) == [b EXCEPT !.decorators = @ \o decorators]

InsertDecorator(b, index, decorator) ==
    [b EXCEPT !.decorators =
        IF index >= Len(@) THEN Append(@, decorator)
        ELSE SubSeq(@, 1, index) \o <<decorator>> \o SubSeq(@, index + 1, Len(@))]

SetAction(b, action) == [b EXCEPT !.action = action]

\* RuleBuilder.build: a string pattern is compiled, a RegExp is taken as it is.
Build(b) ==
    RuleNew([kind |-> b.pattern.kind, lit |-> b.pattern.lit,
             flags |-> b.pattern.flags, lastIndex |-> b.pattern.lastIndex],
            b.action, b.dependencies, b.decorators)

\* The build callback handed to PipelineBuilder.add: a sequence of calls on
\* the builder, [op, arg] or [op, index, arg].
RECURSIVE RunBuild(_, _)
RunBuild(b, calls) ==
    IF calls = <<>> THEN b
    ELSE LET c == Head(calls)
             b1 == CASE c.op = "addDependency" -> AddDependency(b, c.arg)
                     [] c.op = "addDecorators" -> AddDecorators(b, c.arg)
                     [] c.op = "insertDecorator" -> InsertDecorator(b, c.index, c.arg)
                     [] c.op = "setAction" -> SetAction(b, c.arg)
         IN  RunBuild(b1, Tail(calls))

\* PipelineBuilder.add(regex, build) up to builder.build().
PipelineBuilderAdd(regex, build) == Build(RunBuild(RuleBuilderNew(regex), build))

----------------------------------------------------------------------------
(* The filesystem facade *)

Absent == [mtime |-> 0, contents |-> <<>>, err |-> "ENOENT"]

FileAt(f, path) == IF path \in DOMAIN f THEN f[path] ELSE Absent

\* What fs.stat calls back with: an error, or the stats.
FsStat(f, path) ==
    IF FileAt(f, path).err # "" THEN [err |-> FileAt(f, path).err, mtime |-> 0]
    ELSE [err |-> "", mtime |-> FileAt(f, path).mtime]

\* A system error about path.
SystemError(code, path) == [error |-> code, text |-> path]

\* mtimeSafe answering a date also when stat fails.
MTimeSafe_Epoch(f, path) == IF FileAt(f, path) = Absent THEN 1 ELSE FileAt(f, path).mtime

\* mtimeSafe reading the mtime without looking at stat's error.
MTimeSafe_Unchecked(f, path) == FileAt(f, path).mtime

\* fsx.mtimeSafe: the file's mtime, 0 (null) when stat fails, whatever the
\* error.
MTimeSafe(f, path) ==
    LET stats == FsStat(f, path)
    IN  IF stats.err # "" THEN 0 ELSE stats.mtime

\* fsx.readFile
ReadFile(f, path) == FileAt(f, path).contents

\* fsx.writeFilep at time t: [ok |-> TRUE, fs |-> f'], or [ok |-> FALSE,
\* error |-> e] when the path cannot be accessed.
WriteFilep(f, path, data, t) ==
    IF FileAt(f, path).err \notin {"", "ENOENT"}
    THEN [ok |-> FALSE, error |-> SystemError(FileAt(f, path).err, path)]
    ELSE [ok |-> TRUE,
          fs |-> [p \in DOMAIN f \cup {path} |->
                    IF p = path THEN [mtime |-> t, contents |-> data, err |-> ""]
                    ELSE f[p]]]

----------------------------------------------------------------------------
(* Entries and contexts.  An entry is [name, contents, mtime, path]; a     *)
(* plain Entry has no mtime and no path (0 and Null), a FileEntry has      *)
(* both.  contents is a sequence of bytes, text a sequence of code points. *)

NullBuffer == <<-1>>

\* The entry reading the file called name instead of the file at path.
SimpleFileEntry_ReadsName(name, path, contents, mtime, f) ==
    [name |-> name,
     path |-> path,
     mtime |-> IF mtime = 0 THEN FileAt(f, name).mtime ELSE mtime,
     contents |-> IF contents = NullBuffer THEN ReadFile(f, name) ELSE contents]

\* new SimpleFileEntry(name, path, contents, mtime)
SimpleFileEntry(name, path, contents, mtime, f) ==
    [name |-> name,
     path |-> path,
     mtime |-> IF mtime = 0 THEN FileAt(f, path).mtime ELSE mtime,
     contents |-> IF contents = NullBuffer THEN ReadFile(f, path) ELSE contents]

\* Buffer.from(text, 'utf-8') for code points below 2048.
RECURSIVE Utf8Encode(_)
Utf8Encode(text) ==
    IF text = <<>> THEN <<>>
    ELSE (IF Head(text) < 128 THEN <<Head(text)>>
          ELSE <<192 + (Head(text) \div 64), 128 + (Head(text) % 64)>>)
         \o Utf8Encode(Tail(text))

\* SimpleContext.getMTime: 0 is its null.
GetMTime(entry) == entry.mtime

SeqMax(xs) == CHOOSE x \in {xs[i] : i \in DOMAIN xs} : \A i \in DOMAIN xs : xs[i] <= x

\* composeMTime looking at the entries' own mtimes only.
ComposeMTime_Own(entries, t) ==
    IF Len(entries) = 0 THEN t
    ELSE SeqMax([i \in DOMAIN entries |-> GetMTime(entries[i])])

\* composeMTime answering the clock whatever the entries are.
ComposeMTime_Now(entries, t) == t

\* SimpleContext.composeMTime at time t
ComposeMTime(entries, t) ==
    IF Len(entries) = 0 THEN t
    ELSE SeqMax([i \in DOMAIN entries |->
                    IF GetMTime(entries[i]) # 0 THEN GetMTime(entries[i]) ELSE t])

\* The role bindings the constructor's loop makes, in order.
RECURSIVE Bindings(_)
Bindings(items) ==
    IF items = <<>> THEN <<>>
    ELSE (IF Head(items).name # Null THEN <<Head(items)>> ELSE <<>>)
         \o Bindings(Tail(items))

\* Whether a role binding has assigned the property prop.
Shadowed(bound, prop) == \E i \in DOMAIN bound : bound[i].name = <<prop>>

\* new SimpleContext(input, name, entries) at time t.  The record keeps the
\* constructor's writes in their order: the fields input, name and entries
\* first, then the role bindings in bound, then mtime.  composeMTime is
\* handed this.entries as the bindings left it: an Entry, if a role is
\* called entries, which has no length and so counts as no entries.
SimpleContext(input, name, entries, t) ==
    LET es == [i \in DOMAIN entries |-> entries[i].entry]
    IN  [input |-> input,
         name |-> name,
         path |-> Null,
         entries |-> es,
         bound |-> Bindings(entries),
         mtime |-> IF Shadowed(Bindings(entries), "entries") THEN t
                   ELSE ComposeMTime(es, t)]

\* context[prop] as an action reads it: the last write to the property.
Read(context, prop) ==
    IF prop # "mtime" /\ Shadowed(context.bound, prop)
    THEN LET last == CHOOSE i \in DOMAIN context.bound :
                        /\ context.bound[i].name = <<prop>>
                        /\ \A j \in DOMAIN context.bound :
                              context.bound[j].name = <<prop>> => j <= i
         IN  [type |-> "entry", value |-> context.bound[last].entry]
    ELSE [type |-> "own", value |-> context[prop]]

NoContext == SimpleContext(Null, Null, <<>>, 0)

\* A ContextDecorator of a caller: [dec |-> "setPath" | "setName", value |-> s].
Decorate(d, context) ==
    IF d.dec = "setPath" THEN [context EXCEPT !.path = d.value]
    ELSE [context EXCEPT !.name = d.value]

----------------------------------------------------------------------------
(* Actions.  [act |-> "store"], [act |-> "pass"], or a caller's function    *)
(* [act |-> "user", returns |-> r], r being [type |-> "buffer", bytes],     *)
(* [type |-> "string", text] or [type |-> "entry", entry].  An action       *)
(* gives [ok |-> TRUE, result |-> r, fs |-> f'] or [ok |-> FALSE, error].   *)

\* store writing to the path of the target instead of the context's.
Store_ToInput(context, f, t) ==
    LET path == context.input
    IN  IF Len(context.entries) > 0 /\ Or(context.path, context.name) # Null
        THEN LET written == WriteFilep(f, path, context.entries[1].contents, t)
             IN  IF written.ok
                 THEN [ok |-> TRUE,
                       result |-> [type |-> "buffer",
                                   bytes |-> context.entries[1].contents],
                       fs |-> written.fs]
                 ELSE [ok |-> FALSE, error |-> written.error]
        ELSE [ok |-> FALSE,
              error |-> [error |-> "Error",
                         text |-> <<"Failed to store (missing path or entry)!">>]]

\* actions.store completing at time t
Store(context, f, t) ==
    LET path == Or(context.path, context.name)
    IN  IF Len(context.entries) > 0 /\ path # Null
        THEN LET written == WriteFilep(f, path, context.entries[1].contents, t)
             IN  IF written.ok
                 THEN [ok |-> TRUE,
                       result |-> [type |-> "buffer",
                                   bytes |-> context.entries[1].contents],
                       fs |-> written.fs]
                 ELSE [ok |-> FALSE, error |-> written.error]
        ELSE [ok |-> FALSE,
              error |-> [error |-> "Error",
                         text |-> <<"Failed to store (missing path or entry)!">>]]

\* actions.pass
Pass(context, f) ==
    IF Len(context.entries) = 0
    THEN [ok |-> FALSE,
          error |-> [error |-> "Error",
                     text |-> <<"Failed to pass (missing source entry)!">>]]
    ELSE [ok |-> TRUE,
          result |-> [type |-> "entry",
                      entry |-> [name |-> Or(context.name,
                                             Or(context.entries[1].name, <<"source">>)),
                                 contents |-> context.entries[1].contents,
                                 mtime |-> 0,
                                 path |-> Null]],
          fs |-> f]

\* rule.action(context); calling a null action is a TypeError.
RunAction(action, context, f, t) ==
    CASE action.act = "store" -> Store(context, f, t)
      [] action.act = "pass" -> Pass(context, f)
      [] action.act = "user" -> [ok |-> TRUE, result |-> action.returns, fs |-> f]
      [] OTHER -> [ok |-> FALSE,
                   error |-> [error |-> "TypeError",
                              text |-> <<"rule.action is not a function">>]]

\* The normalisation of an action's result into an Entry.
Normalise(actionResult, name, input) ==
    CASE actionResult.type = "buffer" ->
            [name |-> Or(name, input), contents |-> actionResult.bytes,
             mtime |-> 0, path |-> Null]
      [] actionResult.type = "string" ->
            [name |-> Or(name, input), contents |-> Utf8Encode(actionResult.text),
             mtime |-> 0, path |-> Null]
      [] OTHER -> actionResult.entry

----------------------------------------------------------------------------
(* Pipeline.exec.  One invocation is a frame                               *)
(*   [id, input, name, rule, pc, mtime, rawDeps, entries, context, passed] *)
(* (context the SimpleContext built, passed the one handed to the action)  *)
(* suspended at the await named by pc:                                     *)
(*   "mtimeSafe"  await fsx.mtimeSafe(input)                               *)
(*   "exec"       await this.exec(dependency.value, ...)                   *)
(*   "mtime"      await context.mtime                                      *)
(*   "action"     await rule.action(context)                               *)
(* rule is the index of the selected rule in the rule set, 0 for none.     *)
(* Each operator below runs the code from one await to the next and says   *)
(* how the invocation goes on: it awaits, calls exec, returns or throws.   *)

Await(frame, events) == [kind |-> "await", frame |-> frame, events |-> events]
CallExec(frame, child, events) ==
    [kind |-> "call", frame |-> frame, child |-> child, events |-> events]
Return(entry, events) == [kind |-> "return", entry |-> entry, events |-> events]
Throw(error, events) == [kind |-> "throw", error |-> error, events |-> events]

\* The loop without its break: the last rule whose pattern matches.
SelectRule_Last(rs, input) ==
    LET hits == {i \in DOMAIN rs : RegExpTest(rs[i].pattern, input)}
    IN  IF hits = {} THEN 0 ELSE CHOOSE i \in hits : \A j \in hits : i >= j

\* The for loop over this.ruleSet: the first rule whose pattern matches.
SelectRule(rs, input) ==
    LET hits == {i \in DOMAIN rs : RegExpTest(rs[i].pattern, input)}
    IN  IF hits = {} THEN 0 ELSE CHOOSE i \in hits : \A j \in hits : i <= j

\* The comparison taking a target as old as its dependencies for up to date.
UpToDate_NonStrict(mtime, length, depMTime) ==
    mtime # 0 /\ (length = 0 \/ mtime >= depMTime)

\* The condition without the test that the target's file exists.
UpToDate_Unprobed(mtime, length, depMTime) ==
    length = 0 \/ mtime > depMTime

\* The condition under which exec skips the action.
UpToDate(mtime, length, depMTime) ==
    mtime # 0 /\ (length = 0 \/ mtime > depMTime)

\* entries.unshift(entry)
Push_Front(entries, entry) == <<entry>> \o entries

\* entries.push(entry)
Push(entries, entry) == Append(entries, entry)

\* The rule set after the for loop: every rule up to the selected one (all
\* of them when none matched) has had its pattern tested.
Tested(rs, input) ==
    LET selected == SelectRule(rs, input)
    IN  [i \in DOMAIN rs |->
            IF selected = 0 \/ i <= selected
            THEN [rs[i] EXCEPT !.pattern.lastIndex = LastIndex(rs[i].pattern, input)]
            ELSE rs[i]]

\* The rule set after rule.evalDependencies(input) of the selected rule.
Evaluated(rs, selected, input) ==
    IF selected = 0 THEN rs
    ELSE [rs EXCEPT ![selected].pattern.lastIndex =
                        LastIndex(rs[selected].pattern, input)]

\* exec from its start to await fsx.mtimeSafe(input).
ExecBegin(id, input, name, rs) ==
    [id |-> id, input |-> input, name |-> name, rule |-> SelectRule(rs, input),
     pc |-> "mtimeSafe", mtime |-> 0, rawDeps |-> <<>>, entries |-> <<>>,
     context |-> NoContext, passed |-> NoContext]

\* The action check made only for a target that is not up to date.
ExecContext_Lazy(frame, rs, t) ==
    LET rule == rs[frame.rule]
        context == SimpleContext(frame.input, frame.name, frame.entries, t)
    IN  IF rule.action = NullAction
            /\ ~UpToDate(frame.mtime, Len(frame.entries), context.mtime)
        THEN Throw([error |-> "Error", text |-> <<"default actions not yet supported">>],
                   <<[ev |-> "noaction", id |-> frame.id, input |-> frame.input,
                      rule |-> frame.rule, T |-> frame.mtime, D |-> context.mtime,
                      n |-> Len(frame.entries)]>>)
        ELSE Await([frame EXCEPT !.pc = "mtime", !.context = context],
                   <<[ev |-> "context", id |-> frame.id, at |-> t, context |-> context]>>)

\* After the dependency loop: the action check and the new context.
ExecContext(frame, rs, t) ==
    LET rule == rs[frame.rule]
        context == SimpleContext(frame.input, frame.name, frame.entries, t)
    IN  IF rule.action = NullAction
        THEN Throw([error |-> "Error", text |-> <<"default actions not yet supported">>],
                   <<[ev |-> "noaction", id |-> frame.id, input |-> frame.input,
                      rule |-> frame.rule, T |-> frame.mtime, D |-> context.mtime,
                      n |-> Len(frame.entries)]>>)
        ELSE Await([frame EXCEPT !.pc = "mtime", !.context = context],
                   <<[ev |-> "context", id |-> frame.id, at |-> t, context |-> context]>>)

\* The loop passing over a dependency that is the target itself.
ExecDependencies_SkipSelf(frame, rs, t, events) ==
    IF Len(frame.entries) < Len(frame.rawDeps)
        /\ frame.rawDeps[Len(frame.entries) + 1].value # frame.input
    THEN LET dependency == frame.rawDeps[Len(frame.entries) + 1]
         IN  CallExec([frame EXCEPT !.pc = "exec"],
                      [input |-> dependency.value, name |-> dependency.name],
                      events)
    ELSE LET o == ExecContext(frame, rs, t)
         IN  [o EXCEPT !.events = events \o @]

\* The loop left out for a target whose file exists.
ExecDependencies_Lazy(frame, rs, t, events) ==
    IF Len(frame.entries) < Len(frame.rawDeps) /\ frame.mtime = 0
    THEN LET dependency == frame.rawDeps[Len(frame.entries) + 1]
         IN  CallExec([frame EXCEPT !.pc = "exec"],
                      [input |-> dependency.value, name |-> dependency.name],
                      events)
    ELSE LET o == ExecContext(frame, rs, t)
         IN  [o EXCEPT !.events = events \o @]

\* The dependency loop: the next recursive exec, or the code after the loop.
ExecDependencies(frame, rs, t, events) ==
    IF Len(frame.entries) < Len(frame.rawDeps)
    THEN LET dependency == frame.rawDeps[Len(frame.entries) + 1]
         IN  CallExec([frame EXCEPT !.pc = "exec"],
                      [input |-> dependency.value, name |-> dependency.name],
                      events)
    ELSE LET o == ExecContext(frame, rs, t)
         IN  [o EXCEPT !.events = events \o @]

\* fsx.mtimeSafe has answered: the leaf cases, evalDependencies, the loop's start.
ExecProbed(frame, rs, f, t) ==
    LET mtime == MTimeSafe(f, frame.input)
        probe == <<[ev |-> "probe", id |-> frame.id, input |-> frame.input,
                    rule |-> frame.rule, stats |-> FsStat(f, frame.input),
                    mtime |-> mtime]>>
    IN  IF frame.rule = 0
        THEN IF mtime # 0
             THEN Return(SimpleFileEntry(Or(frame.name, frame.input), frame.input,
                                         NullBuffer, mtime, f), probe)
             ELSE Throw([error |-> "Error",
                         text |-> <<"no matching rule for">> \o frame.input], probe)
        ELSE LET rawDepsOrNull == EvalDependencies(rs[frame.rule], frame.input)
             IN  IF ~rawDepsOrNull.matched
                 THEN Throw([error |-> "Error",
                             text |-> <<"invalid matching rule for">> \o frame.input],
                            probe)
                 ELSE ExecDependencies(
                        [frame EXCEPT !.mtime = mtime, !.rawDeps = rawDepsOrNull.deps],
                        rs, t,
                        probe \o
                        <<[ev |-> "dependencies", id |-> frame.id, input |-> frame.input,
                           rule |-> frame.rule, rawDeps |-> rawDepsOrNull.deps]>>)

\* A recursive exec has returned entry: the loop's body after the await.
ExecResolved(frame, entry, rs, t) ==
    LET dependency == frame.rawDeps[Len(frame.entries) + 1]
    IN  ExecDependencies(
            [frame EXCEPT !.entries = Push(@, [name |-> dependency.name, entry |-> entry])],
            rs, t,
            <<[ev |-> "resolved", id |-> frame.id, index |-> Len(frame.entries) + 1,
               dependency |-> dependency, entry |-> entry]>>)

\* context.mtime has answered: skip the action or invoke it.
ExecDecide(frame, rs, f) ==
    LET depMTime == frame.context.mtime
    IN  IF UpToDate(frame.mtime, Len(frame.entries), depMTime)
        THEN LET result == SimpleFileEntry(Or(frame.name, frame.input), frame.input,
                                           NullBuffer, frame.mtime, f)
             IN  Return(result,
                        <<[ev |-> "skip", id |-> frame.id, input |-> frame.input,
                           rule |-> frame.rule, T |-> frame.mtime, D |-> depMTime,
                           n |-> Len(frame.entries), entry |-> result]>>)
        ELSE Await([frame EXCEPT !.pc = "action", !.passed = frame.context],
                   <<[ev |-> "action", id |-> frame.id, input |-> frame.input,
                      rule |-> frame.rule, T |-> frame.mtime, D |-> depMTime,
                      n |-> Len(frame.entries), fresh |-> frame.context,
                      context |-> frame.context]>>)

\* The awaited exec rejecting with an error of the engine's own making.
ExecRejected_Wrapped(frame, error) ==
    Throw([error |-> "Error", text |-> <<"failed dependency of">> \o frame.input], <<>>)

\* A recursive exec has rejected: the await throws inside the loop, which
\* has no try block, so the invocation rejects with the same error.
ExecRejected(frame, error) == Throw(error, <<>>)

\* The action has settled with a: the normalisation of its result.
ExecAction(frame, a) ==
    IF a.ok THEN Return(Normalise(a.result, frame.name, frame.input), <<>>)
    ELSE Throw(a.error, <<>>)

----------------------------------------------------------------------------
(* The rules a caller registers, and the files it starts from *)

MinJs == [kind |-> "suffix", lit |-> <<".min", ".js">>, flags |-> "", lastIndex |-> 0]
ExactMinJs == [kind |-> "exact", lit |-> AppMinJs, flags |-> "", lastIndex |-> 0]
ExactLibJs == [kind |-> "exact", lit |-> LibJs, flags |-> "", lastIndex |-> 0]

StemJs == <<"\\1", ".js">>

User(returns) == [type |-> "function", fn |-> "user", returns |-> returns]

\* app.min.js from the template \1.js, passed through
Templated ==
    [regex |-> MinJs,
     build |-> <<[op |-> "addDependency", arg |-> [type |-> "string", value |-> StemJs]],
                 [op |-> "setAction", arg |-> [act |-> "pass"]]>>]

\* app.min.js from app.js and lib.js (role "lib"), computed by a function
Bundled ==
    [regex |-> MinJs,
     build |-> <<[op |-> "addDependency",
                  arg |-> User([type |-> "iterator",
                                items |-> <<[type |-> "string", expr |-> StemJs],
                                            [type |-> "null"],
                                            [type |-> "named", name |-> <<"lib">>,
                                             expr |-> LibJs]>>])],
                 [op |-> "setAction",
                  arg |-> [act |-> "user",
                           returns |-> [type |-> "buffer", bytes |-> <<7>>]]]>>]

\* app.min.js from nothing
Generated ==
    [regex |-> ExactMinJs,
     build |-> <<[op |-> "addDependency", arg |-> User([type |-> "null"])],
                 [op |-> "setAction",
                  arg |-> [act |-> "user",
                           returns |-> [type |-> "string", text |-> <<233>>]]]>>]

\* app.min.js with no dependency declared at all
Undeclared ==
    [regex |-> ExactMinJs,
     build |-> <<[op |-> "setAction", arg |-> [act |-> "pass"]]>>]

\* app.min.js from app.js, without an action
Actionless ==
    [regex |-> MinJs,
     build |-> <<[op |-> "addDependency",
                  arg |-> User([type |-> "string", expr |-> StemJs])]>>]

\* app.min.js stored from app.js (role "src"), the path set by decorators
Stored ==
    [regex |-> MinJs,
     build |-> <<[op |-> "addDependency",
                  arg |-> User([type |-> "named", name |-> <<"src">>, expr |-> StemJs])],
                 [op |-> "addDecorators",
                  arg |-> <<[dec |-> "setPath", value |-> AppMinJs]>>],
                 [op |-> "insertDecorator", index |-> 0,
                  arg |-> [dec |-> "setPath", value |-> LibJs]],
                 [op |-> "setAction", arg |-> [act |-> "store"]]>>]

\* lib.js from nothing
Library ==
    [regex |-> ExactLibJs,
     build |-> <<[op |-> "addDependency", arg |-> User([type |-> "null"])],
                 [op |-> "setAction",
                  arg |-> [act |-> "user",
                           returns |-> [type |-> "string", text |-> <<108>>]]]>>]

\* The Bundled rule, its pattern a RegExp with the g flag
Global == [Bundled EXCEPT !.regex.flags = "g"]

\* The Library rule, its pattern a RegExp with the y flag
StickyLibrary == [Library EXCEPT !.regex.flags = "y"]

\* The callbacks callers hand to Pipeline.build, each a sequence of add calls.
Programs ==
    {<<>>, <<Templated>>, <<Bundled>>, <<Bundled, Library>>, <<Generated, Bundled>>,
     <<Bundled, Generated>>, <<Actionless>>, <<Actionless, Stored>>, <<Stored>>,
     <<Stored, Library, Generated>>, <<Undeclared>>, <<Library, Undeclared>>,
     <<Global>>, <<StickyLibrary, Bundled>>}

\* What a caller asks exec for: the target and the optional name.
Requests == {[input |-> AppMinJs, name |-> Null], [input |-> AppMinJs, name |-> AppMinJs]}

InitialContents(path) ==
    CASE path = AppJs -> <<97>>
      [] path = AppMinJs -> <<109>>
      [] OTHER -> <<108>>

InitialFiles ==
    {f \in [Paths -> [mtime : 0..MaxInitTime,
                      contents : {InitialContents(p) : p \in Paths} \cup {<<>>},
                      err : {"", "ENOENT"}]] :
        \A p \in Paths :
            \/ f[p] = Absent
            \/ (f[p].mtime > 0 /\ f[p].contents = InitialContents(p) /\ f[p].err = "")}

\* The same files, one of them in a directory the process may not search:
\* fs.stat fails for it with EACCES.
Unreadable(file) == [file EXCEPT !.err = "EACCES"]

DeniedFiles ==
    {g \in UNION {{[f EXCEPT ![p] = Unreadable(@)] : p \in Paths} : f \in InitialFiles} :
        \A p \in Paths : g[p].err = "EACCES" => g[p].mtime > 0}

----------------------------------------------------------------------------
(* The state machine *)

NoRet == [kind |-> "none"]

Init ==
    /\ debug = FALSE
    /\ program \in Programs
    /\ phase = "building"
    /\ ruleSet = <<>>
    /\ added = <<>>
    /\ fs \in InitialFiles
    /\ now = MaxInitTime
    /\ stack = <<>>
    /\ parked = <<>>
    /\ ret = NoRet
    /\ nextId = 0
    /\ results = <<>>
    /\ log = <<>>

\* PipelineBuilder.add inside the callback of Pipeline.build; a throwing
\* add ends the build without a Pipeline.
Add ==
    LET script == program[Len(added) + 1]
        built == PipelineBuilderAdd(script.regex, script.build)
    IN  /\ phase = "building"
        /\ Len(added) < Len(program)
        /\ added' = Append(added, [script |-> script, ok |-> built.ok])
        /\ IF built.ok
           THEN ruleSet' = Append(ruleSet, built.rule) /\ UNCHANGED phase
           ELSE phase' = "failed" /\ UNCHANGED ruleSet
        /\ UNCHANGED <<debug, program, fs, now, stack, parked, ret, nextId, results, log>>

\* Pipeline.build returns the new Pipeline.
PipelineBuild ==
    /\ phase = "building"
    /\ Len(added) = Len(program)
    /\ phase' = "ready"
    /\ UNCHANGED <<debug, program, ruleSet, added, fs, now, stack, parked, ret, nextId, results,
                   log>>

Tick ==
    /\ now < MaxTime
    /\ now' = now + 1
    /\ UNCHANGED <<debug, program, phase, ruleSet, added, fs, stack, parked, ret, nextId, results,
                   log>>

Top == stack[Len(stack)]

\* The innermost invocation goes on as outcome o says; f is the filesystem
\* and rs the rule set its code leaves behind, the rules of rs being tested
\* once more when it calls exec.
Continue(o, f, rs) ==
    /\ o.kind = "call" => Len(stack) < MaxDepth
    /\ fs' = f
    /\ ruleSet' = IF o.kind = "call" THEN Tested(rs, o.child.input) ELSE rs
    /\ log' = log \o o.events
            \o (IF o.kind \in {"return", "throw"}
                THEN <<[ev |-> "done", id |-> Top.id, input |-> Top.input,
                        name |-> Top.name, kind |-> o.kind,
                        value |-> IF o.kind = "return" THEN o.entry ELSE o.error,
                        file |-> FileAt(fs, Top.input)]>>
                ELSE IF o.kind = "call"
                THEN <<[ev |-> "call", id |-> nextId + 1, parent |-> Top.id,
                        input |-> o.child.input, name |-> o.child.name]>>
                ELSE <<>>)
    /\ CASE o.kind = "await" ->
                /\ stack' = [stack EXCEPT ![Len(stack)] = o.frame]
                /\ ret' = NoRet
                /\ UNCHANGED <<nextId, results>>
         [] o.kind = "call" ->
                /\ stack' = Append([stack EXCEPT ![Len(stack)] = o.frame],
                                   ExecBegin(nextId + 1, o.child.input, o.child.name, rs))
                /\ nextId' = nextId + 1
                /\ ret' = NoRet
                /\ UNCHANGED results
         [] OTHER ->
                LET settled == IF o.kind = "return"
                               THEN [kind |-> "entry", value |-> o.entry]
                               ELSE [kind |-> "error", value |-> o.error]
                IN  /\ stack' = SubSeq(stack, 1, Len(stack) - 1)
                    /\ IF Len(stack) = 1
                       THEN /\ results' = Append(results,
                                    [id |-> Top.id, input |-> Top.input, name |-> Top.name,
                                     kind |-> settled.kind, value |-> settled.value,
                                     fs |-> f])
                            /\ ret' = NoRet
                       ELSE /\ ret' = settled
                            /\ UNCHANGED results
                    /\ UNCHANGED nextId
    /\ UNCHANGED <<debug, program, phase, added, now, parked>>

\* The number of top-level calls made so far.
Started == Cardinality({i \in DOMAIN log : log[i].ev = "exec"})

\* A caller invokes pipeline.exec(input, name).
Exec(request) ==
    /\ phase = "ready"
    /\ stack = <<>>
    /\ Started < MaxCalls
    /\ stack' = <<ExecBegin(nextId + 1, request.input, request.name, ruleSet)>>
    /\ ruleSet' = Tested(ruleSet, request.input)
    /\ nextId' = nextId + 1
    /\ log' = Append(log, [ev |-> "exec", id |-> nextId + 1, input |-> request.input,
                           name |-> request.name, fs |-> fs])
    /\ UNCHANGED <<debug, program, phase, added, fs, now, parked, ret, results>>

\* await fsx.mtimeSafe(input) completes.
Probed ==
    /\ stack # <<>>
    /\ Top.pc = "mtimeSafe"
    /\ Continue(ExecProbed(Top, ruleSet, fs, now), fs,
                Evaluated(ruleSet, Top.rule, Top.input))

\* await this.exec(...) completes: with an entry, or with the error that
\* the awaiting invocation rethrows.
Resolved ==
    /\ stack # <<>>
    /\ Top.pc = "exec"
    /\ ret # NoRet
    /\ Continue(IF ret.kind = "entry" THEN ExecResolved(Top, ret.value, ruleSet, now)
                ELSE ExecRejected(Top, ret.value), fs, ruleSet)

\* await context.mtime completes.
Decided ==
    /\ stack # <<>>
    /\ Top.pc = "mtime"
    /\ Continue(ExecDecide(Top, ruleSet, fs), fs, ruleSet)

\* await rule.action(context) completes.
Acted ==
    /\ stack # <<>>
    /\ Top.pc = "action"
    /\ LET a == RunAction(ruleSet[Top.rule].action, Top.passed, fs, now)
       IN  Continue(ExecAction(Top, a), IF a.ok THEN a.fs ELSE fs, ruleSet)

Next ==
    \/ Add
    \/ PipelineBuild
    \/ \E request \in Requests : Exec(request)
    \/ Probed
    \/ Resolved
    \/ Decided
    \/ Acted
    \/ Tick

Spec == Init /\ [][Next]_vars

\* The same engine started on a filesystem with an unreadable file.
DeniedPrograms == {<<>>, <<Bundled, Library>>, <<Stored>>}

InitDenied ==
    /\ debug = FALSE
    /\ program \in DeniedPrograms
    /\ phase = "building"
    /\ ruleSet = <<>>
    /\ added = <<>>
    /\ fs \in DeniedFiles
    /\ now = MaxInitTime
    /\ stack = <<>>
    /\ parked = <<>>
    /\ ret = NoRet
    /\ nextId = 0
    /\ results = <<>>
    /\ log = <<>>

SpecDenied == InitDenied /\ [][Next]_vars

\* Rule sets whose dependency graph has a cycle through app.min.js.
Literal(path) == [type |-> "string", expr |-> path]

\* app.min.js from app.js, lib.js and app.min.js itself
Recursive ==
    [regex |-> ExactMinJs,
     build |-> <<[op |-> "addDependency",
                  arg |-> User([type |-> "iterator",
                                items |-> <<Literal(AppJs), Literal(LibJs),
                                            Literal(AppMinJs)>>])],
                 [op |-> "setAction",
                  arg |-> [act |-> "user",
                           returns |-> [type |-> "buffer", bytes |-> <<7>>]]]>>]

\* app.min.js from lib.js ...
Ping ==
    [regex |-> ExactMinJs,
     build |-> <<[op |-> "addDependency", arg |-> User(Literal(LibJs))],
                 [op |-> "setAction", arg |-> [act |-> "pass"]]>>]

\* ... and lib.js from app.min.js
Pong ==
    [regex |-> ExactLibJs,
     build |-> <<[op |-> "addDependency", arg |-> User(Literal(AppMinJs))],
                 [op |-> "setAction", arg |-> [act |-> "pass"]]>>]

CyclePrograms == {<<Recursive>>, <<Recursive, Library>>, <<Ping, Pong>>}

InitCycle ==
    /\ debug = FALSE
    /\ program \in CyclePrograms
    /\ phase = "building"
    /\ ruleSet = <<>>
    /\ added = <<>>
    /\ fs \in InitialFiles
    /\ now = MaxInitTime
    /\ stack = <<>>
    /\ parked = <<>>
    /\ ret = NoRet
    /\ nextId = 0
    /\ results = <<>>
    /\ log = <<>>

SpecCycle == InitCycle /\ [][Next]_vars

\* Rule sets whose dependency graph is a diamond: app.min.js from app.js
\* and lib.js, each of them from shared.js, shared.js from src.js.
SharedJs == <<"shared", ".js">>
SrcJs == <<"src", ".js">>
ExactAppJs == [kind |-> "exact", lit |-> AppJs, flags |-> "", lastIndex |-> 0]
ExactSharedJs == [kind |-> "exact", lit |-> SharedJs, flags |-> "", lastIndex |-> 0]

Apex ==
    [regex |-> ExactMinJs,
     build |-> <<[op |-> "addDependency",
                  arg |-> User([type |-> "iterator",
                                items |-> <<Literal(AppJs), Literal(LibJs)>>])],
                 [op |-> "setAction",
                  arg |-> [act |-> "user",
                           returns |-> [type |-> "buffer", bytes |-> <<7>>]]]>>]

\* One side of the diamond: the target at regex passed on from shared.js,
\* which it asks for under the name "shared.js".
Side(regex) ==
    [regex |-> regex,
     build |-> <<[op |-> "addDependency",
                  arg |-> User([type |-> "named", name |-> SharedJs, expr |-> SharedJs])],
                 [op |-> "setAction", arg |-> [act |-> "pass"]]>>]

\* shared.js made from src.js by action
Shared(action) ==
    [regex |-> ExactSharedJs,
     build |-> <<[op |-> "addDependency", arg |-> User(Literal(SrcJs))],
                 [op |-> "setAction", arg |-> action]>>]

DiamondPrograms ==
    {<<Apex, Side(ExactAppJs), Side(ExactLibJs), Shared([act |-> "store"])>>,
     <<Apex, Side(ExactAppJs), Side(ExactLibJs),
       Shared([act |-> "user", returns |-> [type |-> "string", text |-> <<115>>]])>>}

\* src.js exists, shared.js may, nothing else does.
DiamondFiles ==
    {[p \in Paths \cup {SharedJs, SrcJs} |->
        CASE p = SrcJs -> [mtime |-> a, contents |-> <<114>>, err |-> ""]
          [] p = SharedJs ->
                IF b = 0 THEN Absent ELSE [mtime |-> b, contents |-> <<115>>, err |-> ""]
          [] OTHER -> Absent] : a \in 1..MaxInitTime, b \in 0..MaxInitTime}

InitDiamond ==
    /\ debug = FALSE
    /\ program \in DiamondPrograms
    /\ phase = "building"
    /\ ruleSet = <<>>
    /\ added = <<>>
    /\ fs \in DiamondFiles
    /\ now = MaxInitTime
    /\ stack = <<>>
    /\ parked = <<>>
    /\ ret = NoRet
    /\ nextId = 0
    /\ results = <<>>
    /\ log = <<>>

DiamondRequests == {[input |-> AppMinJs, name |-> Null]}

NextDiamond ==
    \/ Add
    \/ PipelineBuild
    \/ \E request \in DiamondRequests : Exec(request)
    \/ Probed
    \/ Resolved
    \/ Decided
    \/ Acted
    \/ Tick

SpecDiamond == InitDiamond /\ [][NextDiamond]_vars

\* Rules built with several addDependency calls, and a caller asking such
\* a rule for its dependencies.
DeclaredArgs ==
    {[type |-> "string", value |-> StemJs],
     User([type |-> "string", expr |-> StemJs]),
     User([type |-> "null"]),
     User([type |-> "iterator",
           items |-> <<Literal(LibJs), [type |-> "null"],
                       [type |-> "named", name |-> <<"src">>, expr |-> StemJs]>>])}

Composed(args) ==
    [regex |-> MinJs,
     build |-> [i \in DOMAIN args |-> [op |-> "addDependency", arg |-> args[i]]]
                \o <<[op |-> "setAction", arg |-> [act |-> "pass"]]>>]

ComposedPrograms ==
    {<<Composed(args)>> :
        args \in UNION {[1..n -> DeclaredArgs] : n \in 1..MaxDeclarations}}

InitComposed ==
    /\ debug = FALSE
    /\ program \in ComposedPrograms
    /\ phase = "building"
    /\ ruleSet = <<>>
    /\ added = <<>>
    /\ fs = [p \in Paths |-> Absent]
    /\ now = MaxInitTime
    /\ stack = <<>>
    /\ parked = <<>>
    /\ ret = NoRet
    /\ nextId = 0
    /\ results = <<>>
    /\ log = <<>>

\* rule.evalDependencies(input) called on the rule just built.
Evaluate(input) ==
    /\ phase = "ready"
    /\ log = <<>>
    /\ log' = <<[ev |-> "yielded", rule |-> 1, input |-> input,
                 deps |-> EvalDependencies(ruleSet[1], input)]>>
    /\ ruleSet' = Evaluated(ruleSet, 1, input)
    /\ UNCHANGED <<debug, program, phase, added, fs, now, stack, parked, ret, nextId, results>>

NextComposed ==
    \/ Add
    \/ PipelineBuild
    \/ \E input \in {AppMinJs, AppJs} : Evaluate(input)

SpecComposed == InitComposed /\ [][NextComposed]_vars

\* Two callers using one Pipeline at a time: while the call of one waits
\* for its I/O, the other one's call is started or goes on.
Switch ==
    /\ phase = "ready"
    /\ ret = NoRet
    /\ stack # parked
    /\ stack' = parked
    /\ parked' = stack
    /\ UNCHANGED <<debug, program, phase, ruleSet, added, fs, now, ret, nextId, results, log>>

\* Rule sets whose actions write no file.
ConcurrentPrograms == {<<Bundled, Library>>, <<Global>>, <<StickyLibrary, Bundled>>}

ConcurrentRequests == {[input |-> AppMinJs, name |-> Null]}

ConcurrentFiles ==
    {f \in InitialFiles :
        /\ f[AppJs].mtime = MaxInitTime
        /\ \A p \in Paths : f[p].mtime \in {0, MaxInitTime}}

InitConcurrent ==
    /\ debug = FALSE
    /\ program \in ConcurrentPrograms
    /\ phase = "building"
    /\ ruleSet = <<>>
    /\ added = <<>>
    /\ fs \in ConcurrentFiles
    /\ now = MaxInitTime
    /\ stack = <<>>
    /\ parked = <<>>
    /\ ret = NoRet
    /\ nextId = 0
    /\ results = <<>>
    /\ log = <<>>

NextConcurrent ==
    \/ Add
    \/ PipelineBuild
    \/ \E request \in ConcurrentRequests : Exec(request)
    \/ Probed
    \/ Resolved
    \/ Decided
    \/ Acted
    \/ Switch

SpecConcurrent == InitConcurrent /\ [][NextConcurrent]_vars

\* The engine used to store a built artifact under a name of the caller's
\* choosing and to read it back.
OutBin == <<"out", ".bin">>

\* app.min.js stored from lib.js (role "lib")
Archived ==
    [regex |-> MinJs,
     build |-> <<[op |-> "addDependency",
                  arg |-> User([type |-> "named", name |-> <<"lib">>, expr |-> LibJs])],
                 [op |-> "setAction", arg |-> [act |-> "store"]]>>]

StorePrograms == {<<Stored>>, <<Archived, Library>>}

StoreRequests ==
    {[input |-> AppMinJs, name |-> OutBin], [input |-> AppMinJs, name |-> Null],
     [input |-> OutBin, name |-> Null]}

StoreFiles == {f \in InitialFiles : f[AppMinJs] = Absent}

InitStore ==
    /\ debug = FALSE
    /\ program \in StorePrograms
    /\ phase = "building"
    /\ ruleSet = <<>>
    /\ added = <<>>
    /\ fs \in StoreFiles
    /\ now = MaxInitTime
    /\ stack = <<>>
    /\ parked = <<>>
    /\ ret = NoRet
    /\ nextId = 0
    /\ results = <<>>
    /\ log = <<>>

NextStore ==
    \/ Add
    \/ PipelineBuild
    \/ \E request \in StoreRequests : Exec(request)
    \/ Probed
    \/ Resolved
    \/ Decided
    \/ Acted
    \/ Tick

SpecStore == InitStore /\ [][NextStore]_vars

\* The engine used to keep a stored artifact up to date: lib.js is stored
\* from app.js, and app.min.js depends on it.
Unbuilt ==
    [regex |-> MinJs,
     build |-> <<[op |-> "addDependency",
                  arg |-> User([type |-> "named", name |-> LibJs, expr |-> LibJs])]>>]

Kept ==
    [regex |-> ExactLibJs,
     build |-> <<[op |-> "addDependency", arg |-> User([type |-> "string", expr |-> AppJs])],
                 [op |-> "setAction", arg |-> [act |-> "store"]]>>]

RebuildPrograms == {<<Unbuilt, Kept>>, <<Kept>>}

RebuildRequests ==
    {[input |-> AppMinJs, name |-> Null], [input |-> LibJs, name |-> LibJs],
     [input |-> LibJs, name |-> AppMinJs]}

InitRebuild ==
    /\ debug = FALSE
    /\ program \in RebuildPrograms
    /\ phase = "building"
    /\ ruleSet = <<>>
    /\ added = <<>>
    /\ fs \in InitialFiles
    /\ now = MaxInitTime
    /\ stack = <<>>
    /\ parked = <<>>
    /\ ret = NoRet
    /\ nextId = 0
    /\ results = <<>>
    /\ log = <<>>

NextRebuild ==
    \/ Add
    \/ PipelineBuild
    \/ \E request \in RebuildRequests : Exec(request)
    \/ Probed
    \/ Resolved
    \/ Decided
    \/ Acted
    \/ Tick

SpecRebuild == InitRebuild /\ [][NextRebuild]_vars

\* The context exec makes of the dependencies it has resolved, whatever
\* their roles are called.
RoleNames == {Null, <<"src">>, <<"entries">>, <<"mtime">>, <<"name">>, <<"input">>}

ResolvedEntries ==
    {SimpleFileEntry(AppJs, AppJs, NullBuffer, 1, [p \in Paths |-> Absent]),
     Normalise([type |-> "buffer", bytes |-> <<7>>], Null, LibJs)}

NamedEntries ==
    UNION {[1..n -> [name : RoleNames, entry : ResolvedEntries]] : n \in 0..MaxEntries}

InitContext ==
    /\ debug = FALSE
    /\ program = <<>>
    /\ phase = "ready"
    /\ ruleSet = <<>>
    /\ added = <<>>
    /\ fs = [p \in Paths |-> Absent]
    /\ now = MaxInitTime
    /\ stack = <<>>
    /\ parked = <<>>
    /\ ret = NoRet
    /\ nextId = 0
    /\ results = <<>>
    /\ log = <<>>

\* exec comes to new SimpleContext(input, name, entries).
Construct(input, name, entries) ==
    /\ log = <<>>
    /\ log' = <<[ev |-> "constructed", input |-> input, name |-> name,
                 entries |-> entries, at |-> now,
                 context |-> SimpleContext(input, name, entries, now)]>>
    /\ UNCHANGED <<debug, program, phase, ruleSet, added, fs, now, stack, parked, ret,
                   nextId, results>>

NextContext ==
    \/ \E name \in {Null, OutBin} : \E entries \in NamedEntries :
          Construct(AppMinJs, name, entries)
    \/ Tick

SpecContext == InitContext /\ [][NextContext]_vars

----------------------------------------------------------------------------
(* Creating directories: fsx.mkdirp under fsx.writeFilep.  Here a path is  *)
(* its sequence of segments, <<>> being the directory dirname stops at     *)
(* ("." or "/"), and a file record says whether it is a directory.  The    *)
(* invocations of writeFilep, optimisticMkdirp and ensureDirectory are     *)
(* frames [fn, path, pc, ...] on the stack, suspended at the await named   *)
(* by pc; another process may create directories between their steps.      *)

Dirname(path) == IF path = <<>> THEN <<>> ELSE SubSeq(path, 1, Len(path) - 1)

Directory(t) == [mtime |-> t, contents |-> <<>>, err |-> "", dir |-> TRUE]
RegularFile(t, data) == [mtime |-> t, contents |-> data, err |-> "", dir |-> FALSE]

\* stats.isDirectory() of a path stat succeeds for
IsDirectory(f, path) == f[path].dir

\* The error the kernel answers a lookup of path with: "" when it exists.
Lookup(f, path) ==
    IF path \in DOMAIN f THEN ""
    ELSE IF \E k \in 0..(Len(path) - 1) :
               SubSeq(path, 1, k) \in DOMAIN f /\ ~IsDirectory(f, SubSeq(path, 1, k))
    THEN "ENOTDIR"
    ELSE "ENOENT"

\* fs.mkdir: [err |-> code, fs |-> the filesystem afterwards]
FsMkdir(f, path, t) ==
    IF Lookup(f, path) = "" THEN [err |-> "EEXIST", fs |-> f]
    ELSE IF Lookup(f, Dirname(path)) # "" THEN [err |-> Lookup(f, Dirname(path)), fs |-> f]
    ELSE IF ~IsDirectory(f, Dirname(path)) THEN [err |-> "ENOTDIR", fs |-> f]
    ELSE [err |-> "",
          fs |-> [p \in DOMAIN f \cup {path} |-> IF p = path THEN Directory(t) ELSE f[p]]]

\* fs.writeFile
FsWriteFile(f, path, data, t) ==
    IF Lookup(f, path) = "" /\ IsDirectory(f, path) THEN [err |-> "EISDIR", fs |-> f]
    ELSE IF Lookup(f, Dirname(path)) # "" THEN [err |-> Lookup(f, Dirname(path)), fs |-> f]
    ELSE IF ~IsDirectory(f, Dirname(path)) THEN [err |-> "ENOTDIR", fs |-> f]
    ELSE [err |-> "",
          fs |-> [p \in DOMAIN f \cup {path} |->
                    IF p = path THEN RegularFile(t, data) ELSE f[p]]]

\* How an fsx invocation goes on besides Await, Return and Throw: it calls
\* another one and waits for it, or hands its own promise over to it.
Call(frame, child) == [kind |-> "call", frame |-> frame, child |-> child]
ReturnAwait(child) == [kind |-> "tail", child |-> child]

OptimisticMkdirpBegin(path) ==
    [fn |-> "optimisticMkdirp", path |-> path, pc |-> "mkdir", error |-> Null]

\* optimisticMkdirp from one await to the next; settled is what the awaited
\* promise settled with.
OptimisticMkdirp(frame, settled, f, t) ==
    CASE frame.pc = "mkdir" ->
            LET made == FsMkdir(f, frame.path, t)
            IN  IF made.err = "" THEN Return(Null, <<>>)
                ELSE IF made.err = "ENOENT"
                THEN Call([frame EXCEPT !.pc = "parent"],
                          OptimisticMkdirpBegin(Dirname(frame.path)))
                ELSE Await([frame EXCEPT !.pc = "stat",
                                         !.error = SystemError(made.err, frame.path)],
                           <<>>)
      [] frame.pc = "parent" ->
            IF settled.kind = "error" THEN Throw(settled.value, <<>>)
            ELSE Call([frame EXCEPT !.pc = "retry"], OptimisticMkdirpBegin(frame.path))
      [] frame.pc = "retry" ->
            IF settled.kind = "error" THEN Throw(settled.value, <<>>)
            ELSE Return(Null, <<>>)
      [] frame.pc = "stat" ->
            IF Lookup(f, frame.path) # ""
            THEN Throw(SystemError(Lookup(f, frame.path), frame.path), <<>>)
            ELSE IF ~IsDirectory(f, frame.path) THEN Throw(frame.error, <<>>)
            ELSE Return(Null, <<>>)

EnsureDirectoryBegin(path, throwOnError) ==
    [fn |-> "ensureDirectory", path |-> path, pc |-> "statSafe",
     throwOnError |-> throwOnError]

FailedToEnsure(path) == [error |-> "Error", text |-> <<"Failed to ensure directory">> \o path]

\* ensureDirectory from one await to the next.  Its last await only hands
\* on what the second ensureDirectory(path) settles with, so that invocation
\* takes the place of this one.
EnsureDirectory(frame, settled, f) ==
    CASE frame.pc = "statSafe" ->
            IF Lookup(f, frame.path) # ""
            THEN Call([frame EXCEPT !.pc = "parent"],
                      EnsureDirectoryBegin(Dirname(frame.path), FALSE))
            ELSE IF IsDirectory(f, frame.path) THEN Return(Null, <<>>)
            ELSE Throw([error |-> "Error",
                        text |-> <<"exists and is not a directory">> \o frame.path], <<>>)
      [] frame.pc = "parent" ->
            IF settled.kind = "error" THEN Throw(settled.value, <<>>)
            ELSE IF settled.value # Null
            THEN IF frame.throwOnError THEN Throw(FailedToEnsure(frame.path), <<>>)
                 ELSE Return(settled.value, <<>>)
            ELSE ReturnAwait(EnsureDirectoryBegin(frame.path, frame.throwOnError))

\* mkdirp, bound when the module is loaded
Mkdirp(path) ==
    IF debug THEN EnsureDirectoryBegin(path, TRUE) ELSE OptimisticMkdirpBegin(path)

\* before is history: the filesystem the call found.
WriteFilepBegin(path, data, f) ==
    [fn |-> "writeFilep", path |-> path, data |-> data, pc |-> "mkdirp", before |-> f]

\* writeFilep after its call of mkdirp
WriteFilepNext(frame, settled, f, t) ==
    CASE frame.pc = "mkdirp" ->
            IF settled.kind = "error" THEN Throw(settled.value, <<>>)
            ELSE Await([frame EXCEPT !.pc = "writeFile"], <<>>)
      [] frame.pc = "writeFile" ->
            LET written == FsWriteFile(f, frame.path, frame.data, t)
            IN  IF written.err # "" THEN Throw(SystemError(written.err, frame.path), <<>>)
                ELSE Return(Null, <<>>)

\* The filesystem an fsx invocation leaves behind by the step it takes.
Effect(frame, f, t) ==
    IF frame.fn = "optimisticMkdirp" /\ frame.pc = "mkdir" THEN FsMkdir(f, frame.path, t).fs
    ELSE IF frame.fn = "writeFilep" /\ frame.pc = "writeFile"
    THEN FsWriteFile(f, frame.path, frame.data, t).fs
    ELSE f

\* The innermost fsx invocation goes on as outcome o says.
Proceed(o) ==
    /\ fs' = Effect(Top, fs, now)
    /\ CASE o.kind = "await" ->
                /\ stack' = [stack EXCEPT ![Len(stack)] = o.frame]
                /\ ret' = NoRet
                /\ UNCHANGED results
         [] o.kind = "call" ->
                /\ stack' = Append([stack EXCEPT ![Len(stack)] = o.frame], o.child)
                /\ ret' = NoRet
                /\ UNCHANGED results
         [] o.kind = "tail" ->
                /\ stack' = [stack EXCEPT ![Len(stack)] = o.child]
                /\ ret' = NoRet
                /\ UNCHANGED results
         [] OTHER ->
                LET settled == IF o.kind = "return"
                               THEN [kind |-> "value", value |-> o.entry]
                               ELSE [kind |-> "error", value |-> o.error]
                IN  /\ stack' = SubSeq(stack, 1, Len(stack) - 1)
                    /\ IF Len(stack) = 1
                       THEN /\ results' = Append(results,
                                    [fn |-> Top.fn, path |-> Top.path,
                                     kind |-> settled.kind, value |-> settled.value,
                                     before |-> Top.before, fs |-> fs'])
                            /\ ret' = NoRet
                       ELSE /\ ret' = settled
                            /\ UNCHANGED results
    /\ UNCHANGED <<debug, program, phase, ruleSet, added, now, parked, nextId, log>>

\* Whether the innermost invocation is one of fn that can take a step: it
\* is not waiting for an invocation it called.
Runnable(fn) ==
    /\ stack # <<>>
    /\ Top.fn = fn
    /\ (Top.pc \in {"parent", "retry", "mkdirp"}) = (ret # NoRet)

\* Directories and the files written into them.
Out == <<"out">>
OutJs == <<"out", "js">>
OutJsMin == <<"out", "js", "min">>
Directories == {Out, OutJs, OutJsMin}
WrittenPaths == {Out \o <<"app.js">>, OutJsMin \o <<"app.js">>}

\* A caller invokes writeFilep(path, data).
WriteFilepCall(path, data) ==
    /\ stack = <<>>
    /\ Len(results) < MaxCalls
    /\ stack' = <<WriteFilepBegin(path, data, fs), Mkdirp(Dirname(path))>>
    /\ UNCHANGED <<debug, program, phase, ruleSet, added, fs, now, parked, ret, nextId,
                   results, log>>

WriteFilepStep ==
    /\ Runnable("writeFilep")
    /\ Proceed(WriteFilepNext(Top, ret, fs, now))

OptimisticMkdirpStep ==
    /\ Runnable("optimisticMkdirp")
    /\ Proceed(OptimisticMkdirp(Top, ret, fs, now))

EnsureDirectoryStep ==
    /\ Runnable("ensureDirectory")
    /\ Proceed(EnsureDirectory(Top, ret, fs))

\* Another process creates a directory while a call is in progress.
Concurrently(path) ==
    /\ stack # <<>>
    /\ FsMkdir(fs, path, now).err = ""
    /\ fs' = FsMkdir(fs, path, now).fs
    /\ UNCHANGED <<debug, program, phase, ruleSet, added, now, stack, parked, ret, nextId,
                   results, log>>

\* The trees a call may find: every directory under an existing directory,
\* and possibly a regular file where out/js should be.
Trees ==
    {[p \in ds \cup {<<>>} |-> Directory(1)] :
        ds \in {ds \in SUBSET Directories : \A d \in ds : Dirname(d) \in ds \cup {<<>>}}}
    \cup {[p \in {<<>>, Out, OutJs} |->
             IF p = OutJs THEN RegularFile(1, <<>>) ELSE Directory(1)]}

InitMkdirp ==
    /\ debug \in BOOLEAN
    /\ program = <<>>
    /\ phase = "ready"
    /\ ruleSet = <<>>
    /\ added = <<>>
    /\ fs \in Trees
    /\ now = MaxInitTime
    /\ stack = <<>>
    /\ parked = <<>>
    /\ ret = NoRet
    /\ nextId = 0
    /\ results = <<>>
    /\ log = <<>>

MkdirpStep == WriteFilepStep \/ OptimisticMkdirpStep \/ EnsureDirectoryStep

NextMkdirp ==
    \/ \E path \in WrittenPaths : WriteFilepCall(path, <<7>>)
    \/ WriteFilepStep
    \/ OptimisticMkdirpStep
    \/ EnsureDirectoryStep
    \/ \E path \in Directories : Concurrently(path)

\* Node runs a settled promise's continuation, and the kernel answers every
\* request: an invocation that can take a step does take it.
SpecMkdirp == InitMkdirp /\ [][NextMkdirp]_vars /\ WF_vars(MkdirpStep)

----------------------------------------------------------------------------
(* What the history records *)

Events(kind) == {log[i] : i \in {j \in DOMAIN log : log[j].ev = kind}}

\* The rules of the rule set whose pattern matches input.
Matching(input) == {i \in DOMAIN ruleSet : Match(ruleSet[i].pattern, input, 0) # NoMatch}

\* The dependencies the generator of invocation id yielded.
RawDepsOf(id) == (CHOOSE e \in Events("dependencies") : e.id = id).rawDeps

\* The arguments of the addDependency calls of a build callback, in order;
\* added[i] is the add call that made ruleSet[i].
RECURSIVE Declarations(_)
Declarations(build) ==
    IF build = <<>> THEN <<>>
    ELSE (IF Head(build).op = "addDependency" THEN <<Head(build).arg>> ELSE <<>>)
         \o Declarations(Tail(build))

\* Every decorator applied in declaration order, each to the previous one's
\* output.
RECURSIVE ApplyDecorators(_, _)
ApplyDecorators(context, decorators) ==
    IF decorators = <<>> THEN context
    ELSE ApplyDecorators(Decorate(Head(decorators), context), Tail(decorators))

----------------------------------------------------------------------------
C2_LeafFile ==
    \A d \in Events("done") :
        (Matching(d.input) = {} /\ d.file.mtime # 0) =>
            /\ d.kind = "return"
            /\ d.value.contents = d.file.contents
            /\ d.value.mtime = d.file.mtime
            /\ \A e \in Events("action") : e.id # d.id

C2_Witness ==
    \E d \in Events("done") :
        Matching(d.input) = {} /\ d.file.mtime # 0 /\ d.name # Null /\ d.kind = "return"

\* C3: an invocation on a target no rule matches and for which no file
\* exists throws the unresolved-target error naming the target.
C3_Unresolved ==
    \A d \in Events("done") :
        (Matching(d.input) = {} /\ d.file.mtime = 0) =>
            /\ d.kind = "throw"
            /\ d.value.text = <<"no matching rule for">> \o d.input

C3_Witness ==
    \E d \in Events("done") :
        Matching(d.input) = {} /\ d.file.mtime = 0 /\ d.kind = "throw"

\* C4: the entries of the context handed to an action are the entries the
\* recursive invocations returned for the yielded dependencies, in the
\* order the generator yielded them.
C4_EntriesInYieldOrder ==
    \A e \in Events("action") :
        LET deps == RawDepsOf(e.id)
        IN  /\ Len(e.context.entries) = Len(deps)
            /\ \A i \in DOMAIN deps :
                  \E c \in Events("call") : \E d \in Events("done") :
                     /\ c.parent = e.id
                     /\ c.input = deps[i].value
                     /\ c.name = deps[i].name
                     /\ d.id = c.id
                     /\ d.kind = "return"
                     /\ d.value = e.context.entries[i]

C4_Witness ==
    \E e \in Events("action") :
        /\ Len(e.context.entries) = 2
        /\ e.context.entries[1] # e.context.entries[2]

----------------------------------------------------------------------------
\* The invocations of exec whose recursive invocations have all returned
\* an entry, one per yielded dependency.
DependenciesResolved(id) ==
    /\ \E e \in Events("dependencies") : e.id = id
    /\ Cardinality({c \in Events("call") : c.parent = id}) = Len(RawDepsOf(id))
    /\ \A c \in Events("call") :
          c.parent = id => \E d \in Events("done") : d.id = c.id /\ d.kind = "return"

\* The rule the invocation id has consulted the generator of.
RuleOf(id) == ruleSet[(CHOOSE e \in Events("dependencies") : e.id = id).rule]

\* C6 as stated: a rule without an action makes exec fail only when the
\* target is stale; for an up-to-date target exec returns the existing
\* file entry.
C6_MissingActionOnlyWhenStale ==
    \A e \in Events("noaction") : ~UpToDate(e.T, e.n, e.D)

\* C6 amended: a rule without an action makes exec fail whether the target
\* is stale or up to date: the invocation never returns an entry, and once
\* all its dependencies have resolved it throws the missing-action error.
C6_MissingActionAlways ==
    \A d \in Events("done") :
        ((\E e \in Events("dependencies") : e.id = d.id)
            /\ RuleOf(d.id).action = NullAction) =>
            /\ d.kind = "throw"
            /\ DependenciesResolved(d.id) =>
                  d.value.text = <<"default actions not yet supported">>

\* An up-to-date target whose rule has no action has failed.
C6_Witness ==
    \E e \in Events("noaction") : \E d \in Events("done") :
        /\ UpToDate(e.T, e.n, e.D)
        /\ d.id = e.id
        /\ d.kind = "throw"
        /\ d.value.text = <<"default actions not yet supported">>

\* C7: the action receives the context the rule's decorators produce, each
\* applied in declaration order to the output of the one before.
C7_DecoratorsApplied ==
    \A e \in Events("action") :
        e.context = ApplyDecorators(e.fresh, ruleSet[e.rule].decorators)

\* C8: a dependency declared as a string template yields exactly one
\* unnamed dependency, the template with every placeholder replaced by the
\* text of its capture group.
C8_TemplateSubstituted ==
    \A e \in Events("dependencies") :
        LET script == added[e.rule].script
            declared == Declarations(script.build)
        IN  (Len(declared) = 1 /\ declared[1].type = "string") =>
                e.rawDeps =
                    <<NamedDependency(Null,
                        Substitute(declared[1].value,
                                   Match(script.regex, e.input, 0)))>>

\* C9: a rule for which addDependency was never called is built without
\* an error (and then yields no dependency).
C9_UndeclaredBuilds ==
    \A i \in DOMAIN added :
        Declarations(added[i].script.build) = <<>> => added[i].ok

\* C10: the rule an invocation consults is the first registered rule whose
\* pattern matches the target; an invocation consults one generator only,
\* and the action it runs is that rule's.
C10_FirstMatchWins ==
    /\ \A e \in Events("dependencies") \cup Events("action") :
          /\ e.rule \in Matching(e.input)
          /\ \A j \in Matching(e.input) : e.rule <= j
    /\ LET consulted == {i \in DOMAIN log : log[i].ev = "dependencies"}
       IN  \A i, j \in consulted : log[i].id = log[j].id => i = j
    /\ \A e \in Events("action") : \E g \in Events("dependencies") :
          g.id = e.id /\ g.rule = e.rule

\* An action has run for a target that two registered rules match.
C10_Witness ==
    \E e \in Events("action") :
        \E i, j \in Matching(e.input) :
            i # j /\ ruleSet[i] # ruleSet[j]

----------------------------------------------------------------------------
\* C11: when the recursive invocation for a dependency throws, the
\* invocation awaiting it throws that same error (and so, link by link,
\* does every enclosing invocation up to the top-level call, which settles
\* with it); the awaiting invocation starts no further recursive
\* invocation after the failure and its action is never invoked.
C11_FailurePropagates ==
    \A c \in Events("call") : \A d \in Events("done") :
        (d.id = c.id /\ d.kind = "throw") =>
            /\ \A p \in Events("done") :
                  p.id = c.parent => (p.kind = "throw" /\ p.value = d.value)
            /\ \A k \in DOMAIN results :
                  results[k].id = c.parent =>
                      (results[k].kind = "error" /\ results[k].value = d.value)
            /\ \A e \in Events("action") \cup Events("skip") : e.id # c.parent
            /\ \A c2 \in Events("call") : c2.parent = c.parent => c2.id <= c.id

\* A top-level call has settled with the error of its second dependency,
\* the first one having resolved.
C11_Witness ==
    \E c \in Events("call") : \E d \in Events("done") : \E k \in DOMAIN results :
        /\ d.id = c.id /\ d.kind = "throw"
        /\ results[k].id = c.parent
        /\ results[k].value = d.value
        /\ \E r \in Events("resolved") : r.id = c.parent

----------------------------------------------------------------------------
\* C12 as stated: when the probe of the target fails for a reason other
\* than the file being absent, the invocation throws that error.
C12_ProbeFailurePropagates ==
    \A e \in Events("probe") : \A d \in Events("done") :
        (e.stats.err \notin {"", "ENOENT"} /\ d.id = e.id) =>
            (d.kind = "throw" /\ d.value = SystemError(e.stats.err, e.input))

\* C12 amended: the probe never fails.  Whatever error stat reports,
\* absence or not, the probe answers "no mtime" and the invocation goes on
\* as for an absent file: a target no rule matches throws the
\* unresolved-target error, a matched target is never skipped as up to
\* date, and stat's error reaches the caller only out of an action that
\* ran into it again (store writing to the same path).
C12_ProbeNeverFails ==
    \A e \in Events("probe") :
        /\ e.mtime = (IF e.stats.err = "" THEN e.stats.mtime ELSE 0)
        /\ e.stats.err # "" =>
              /\ \A k \in Events("skip") : k.id # e.id
              /\ \A a \in Events("action") : a.id = e.id => a.T = 0
              /\ \A d \in Events("done") :
                    d.id = e.id =>
                        /\ e.rule = 0 =>
                              (d.kind = "throw"
                                /\ d.value.text = <<"no matching rule for">> \o e.input)
                        /\ (d.kind = "throw" /\ d.value.error = e.stats.err) =>
                              \E a \in Events("action") : a.id >= e.id

\* The action of a rule has run for a target that exists but cannot be
\* stat'ed, and the invocation has returned an entry.
C12_Witness ==
    \E e \in Events("probe") : \E a \in Events("action") : \E d \in Events("done") :
        /\ e.stats.err = "EACCES"
        /\ a.id = e.id /\ d.id = e.id
        /\ d.kind = "return"

----------------------------------------------------------------------------
\* The top-level call the invocation id was started by (or is).
TopLevelOf(id) ==
    CHOOSE x \in {e.id : e \in Events("exec")} :
        x <= id /\ \A e \in Events("exec") : e.id <= id => e.id <= x

\* The path store writes to: context.path, else context.name.
StorePath(context) == Or(context.path, context.name)

\* The invocations of the store action with an entry and a path to store it at.
Stores ==
    {e \in Events("action") :
        /\ ruleSet[e.rule].action = [act |-> "store"]
        /\ e.n >= 1
        /\ StorePath(e.context) # Null}

\* C13: when the store action runs for a stale target with at least one
\* dependency and a path to write to (context.path, else context.name),
\* the invocation returns the bytes of the first dependency's entry, these
\* bytes are what the file at that path holds afterwards, and a later
\* top-level call on that path, no rule matching it, returns the same
\* bytes.
C13_StoreRoundTrip ==
    \A e \in Stores :
        LET bytes == e.context.entries[1].contents
        IN  /\ \A d \in Events("done") :
                  (d.id = e.id /\ d.kind = "return") => d.value.contents = bytes
            /\ \A k \in DOMAIN results :
                  (results[k].id = TopLevelOf(e.id)
                    /\ \E d \in Events("done") : d.id = e.id /\ d.kind = "return") =>
                     FileAt(results[k].fs, StorePath(e.context)).contents = bytes
            /\ \A y \in Events("exec") :
                  (y.id > e.id /\ y.input = StorePath(e.context)
                    /\ Matching(y.input) = {}
                    /\ \E d \in Events("done") : d.id = e.id /\ d.kind = "return") =>
                     /\ FileAt(y.fs, y.input).contents = bytes
                     /\ \A k \in DOMAIN results :
                           results[k].id = y.id =>
                               /\ results[k].kind = "entry"
                               /\ results[k].value.contents = bytes

\* A stored artifact has been read back by a later call.
C13_Witness ==
    \E e \in Stores : \E y \in Events("exec") : \E k \in DOMAIN results :
        /\ y.id > e.id /\ y.input = StorePath(e.context)
        /\ Matching(y.input) = {}
        /\ results[k].id = y.id
        /\ results[k].kind = "entry"
        /\ results[k].value.contents = e.context.entries[1].contents

----------------------------------------------------------------------------
\* C14: an invocation that selected a rule as matching its target gets a
\* sequence from that rule's evalDependencies, and no invocation throws the
\* invalid-matching-rule error; for every pattern, a RegExp with the g or
\* y flag included, and in every call on the Pipeline.
C14_SelectedRuleYields ==
    /\ \A e \in Events("probe") :
          e.rule # 0 => \E g \in Events("dependencies") : g.id = e.id
    /\ \A d \in Events("done") :
          ~(d.kind = "throw"
             /\ d.value.text = <<"invalid matching rule for">> \o d.input)

----------------------------------------------------------------------------
\* C15: an invocation whose rule has an action and whose target has no
\* file invokes that action exactly once after its dependencies have all
\* resolved (also when there are none): the action is invoked only after
\* every recursive invocation has returned, and never twice by one
\* invocation.
C15_ActionOnceWhenMissing ==
    /\ LET actionAt == {i \in DOMAIN log : log[i].ev = "action"}
       IN  \A i \in actionAt :
              LET children == {c.id : c \in {e \in Events("call") : e.parent = log[i].id}}
              IN  /\ \A j \in actionAt : log[j].id = log[i].id => j = i
                  /\ DependenciesResolved(log[i].id)
                  /\ \A j \in (i + 1)..Len(log) :
                        /\ ~(log[j].ev = "call" /\ log[j].parent = log[i].id)
                        /\ ~(log[j].ev = "done" /\ log[j].id \in children)
    /\ \A e \in Events("probe") : \A d \in Events("done") :
          (/\ d.id = e.id
           /\ e.rule # 0
           /\ ruleSet[e.rule].action # NullAction
           /\ e.stats.err = "ENOENT"
           /\ DependenciesResolved(e.id))
          => \E a \in Events("action") : a.id = e.id /\ a.T = 0

\* A missing target without dependencies has had its action run, and so
\* has a missing target with two.
C15_Witness ==
    /\ \E e \in Events("probe") : \E a \in Events("action") : \E d \in Events("done") :
          e.stats.err = "ENOENT" /\ a.id = e.id /\ d.id = e.id /\ a.n = 0
    /\ \E e \in Events("probe") : \E a \in Events("action") : \E d \in Events("done") :
          e.stats.err = "ENOENT" /\ a.id = e.id /\ d.id = e.id /\ a.n = 2

----------------------------------------------------------------------------
\* C16 as stated: the mtime of a context with at least one entry is the
\* greatest mtime an entry of it has, and the time of its construction
\* when it has no entry.
C16_MaxOfEntryMTimes ==
    \A e \in Events("context") :
        LET es == e.context.entries
        IN  IF Len(es) = 0 THEN e.context.mtime = e.at
            ELSE /\ \E i \in DOMAIN es : es[i].mtime # 0 /\ e.context.mtime = es[i].mtime
                 /\ \A i \in DOMAIN es : es[i].mtime <= e.context.mtime

\* C16 amended: an entry without an mtime (one an action produced) counts
\* with the time at which the context is constructed.  The mtime of a
\* context is the greatest of these stamps, and the construction time when
\* it has no entry.
C16_MaxOfStamps ==
    \A e \in Events("context") :
        LET es == e.context.entries
            stamp == [i \in DOMAIN es |-> IF es[i].mtime # 0 THEN es[i].mtime ELSE e.at]
        IN  IF Len(es) = 0 THEN e.context.mtime = e.at
            ELSE /\ \E i \in DOMAIN es : e.context.mtime = stamp[i]
                 /\ \A i \in DOMAIN es : stamp[i] <= e.context.mtime

\* A context of a file older than the clock and of a generated entry has
\* the clock's time for its mtime.
C16_Witness ==
    \E e \in Events("context") :
        /\ Len(e.context.entries) = 2
        /\ e.context.entries[1].mtime # 0
        /\ e.context.entries[1].mtime < e.at
        /\ e.context.entries[2].mtime = 0
        /\ e.context.mtime = e.at

----------------------------------------------------------------------------
\* The dependency graph of the rule set: the targets the rule selected for
\* u yields.
DependenciesOf(u) ==
    IF Matching(u) = {} THEN {}
    ELSE LET rule == ruleSet[CHOOSE i \in Matching(u) : \A j \in Matching(u) : i <= j]
             deps == Create(rule.dependencies, u, Match(rule.pattern, u, 0))
         IN  {deps[k].value : k \in DOMAIN deps}

RECURSIVE ReachableIn(_, _)
ReachableIn(targets, steps) ==
    IF steps = 0 THEN targets
    ELSE ReachableIn(targets \cup UNION {DependenciesOf(u) : u \in targets}, steps - 1)

\* u transitively depends on itself.
OnCycle(u) == u \in ReachableIn(DependenciesOf(u), Cardinality(Paths))

\* C17 as stated: an invocation on a target that transitively depends on
\* itself never completes, neither with an entry nor with an error.
C17_NeverCompletes ==
    /\ \A d \in Events("done") : ~OnCycle(d.input)
    /\ \A k \in DOMAIN results : ~OnCycle(results[k].input)

\* C17 amended: an invocation on a target that transitively depends on
\* itself never returns an entry, and no action of a target on the cycle
\* is invoked (nor is its staleness decided), whether or not files exist
\* for the targets on the cycle.  It completes only by throwing the error
\* of a dependency outside the cycle whose resolution failed before the
\* recursion came round again; otherwise it keeps recursing.
C17_NoEntryFromCycle ==
    /\ \A e \in Events("action") \cup Events("skip") \cup Events("context") :
          ~OnCycle((CHOOSE g \in Events("dependencies") : g.id = e.id).input)
    /\ \A d \in Events("done") :
          OnCycle(d.input) =>
              /\ d.kind = "throw"
              /\ \E x \in Events("done") :
                    ~OnCycle(x.input) /\ x.kind = "throw" /\ x.value = d.value
    /\ \A k \in DOMAIN results :
          OnCycle(results[k].input) => results[k].kind = "error"

\* The recursion is as deep as the bound lets it go, every invocation in
\* the chain on a target of the cycle, a file existing for each of them.
C17_Witness ==
    /\ Len(stack) = MaxDepth
    /\ \A i \in DOMAIN stack :
          /\ OnCycle(stack[i].input)
          /\ FileAt(fs, stack[i].input).mtime # 0
    /\ results = <<>>

----------------------------------------------------------------------------
\* The first rule matching u, and the dependencies it yields, in order.
Selected(u) == CHOOSE i \in Matching(u) : \A j \in Matching(u) : i <= j

DependencySeq(u) ==
    IF Matching(u) = {} THEN <<>>
    ELSE Create(ruleSet[Selected(u)].dependencies, u,
                Match(ruleSet[Selected(u)].pattern, u, 0))

\* The number of dependency paths of at most n edges from u to v.
RECURSIVE Walks(_, _, _)
RECURSIVE WalksVia(_, _, _)
Walks(u, v, n) ==
    IF u = v THEN 1
    ELSE IF n = 0 THEN 0
    ELSE WalksVia(DependencySeq(u), v, n - 1)
WalksVia(deps, v, n) ==
    IF deps = <<>> THEN 0
    ELSE Walks(Head(deps).value, v, n) + WalksVia(Tail(deps), v, n)

\* The top-level call x and its recursive invocations are numbered from x
\* up to the number before this one.
EndOf(x) ==
    LET later == {e.id : e \in {g \in Events("exec") : g.id > x}}
    IN  IF later = {} THEN nextId + 1
        ELSE CHOOSE i \in later : \A j \in later : i <= j

\* The invocations on target v made within the top-level call x.
Resolutions(x, v) ==
    LET end == EndOf(x)
    IN  {c \in Events("call") \cup Events("exec") :
            c.input = v /\ c.id >= x /\ c.id < end}

\* The invocations among them that invoked the action of v's rule.
Rebuilds(x, v) == {c \in Resolutions(x, v) : \E a \in Events("action") : a.id = c.id}

\* The top-level calls that returned an entry.
Returned == {k \in DOMAIN results : results[k].kind = "entry"}

----------------------------------------------------------------------------
\* What a rule built with the one declaration arg yields for input.
YieldAlone(regex, arg, input) ==
    EvalDependencies(
        PipelineBuilderAdd(regex, <<[op |-> "addDependency", arg |-> arg]>>).rule,
        input).deps

RECURSIVE YieldsInOrder(_, _, _)
YieldsInOrder(regex, declared, input) ==
    IF declared = <<>> THEN <<>>
    ELSE YieldAlone(regex, Head(declared), input)
            \o YieldsInOrder(regex, Tail(declared), input)

\* C19: what a rule built with several addDependency calls yields for a
\* target it matches is what the first declaration yields alone, followed
\* by what the second yields alone, and so on in declaration order:
\* nothing lost, nothing duplicated, nothing out of order.
C19_Concatenation ==
    \A e \in Events("yielded") :
        LET script == added[e.rule].script
        IN  IF Match(script.regex, e.input, 0) = NoMatch THEN ~e.deps.matched
            ELSE /\ e.deps.matched
                 /\ e.deps.deps =
                        YieldsInOrder(script.regex, Declarations(script.build), e.input)

\* Three declarations have yielded five dependencies, those of the first
\* declaration and of the last being different.
C19_Witness ==
    \E e \in Events("yielded") :
        LET declared == Declarations(added[e.rule].script.build)
        IN  /\ Len(declared) = 3
            /\ e.deps.matched
            /\ Len(e.deps.deps) = 5
            /\ YieldAlone(MinJs, declared[1], e.input)
                    # YieldAlone(MinJs, declared[3], e.input)

----------------------------------------------------------------------------
\* One call run alone to its end: the steps of the engine applied one after
\* the other to the chain stk of suspended invocations, r the outcome of the
\* invocation that ended last.
RECURSIVE RunAlone(_, _, _, _, _)
RunAlone(stk, r, rs, f, t) ==
    LET top == stk[Len(stk)]
        rest == SubSeq(stk, 1, Len(stk) - 1)
        a == RunAction(rs[top.rule].action, top.passed, f, t)
        o == CASE top.pc = "mtimeSafe" -> ExecProbed(top, rs, f, t)
               [] top.pc = "exec" ->
                    IF r.kind = "entry" THEN ExecResolved(top, r.value, rs, t)
                    ELSE ExecRejected(top, r.value)
               [] top.pc = "mtime" -> ExecDecide(top, rs, f)
               [] OTHER -> ExecAction(top, a)
        rs1 == IF top.pc = "mtimeSafe" THEN Evaluated(rs, top.rule, top.input) ELSE rs
        f1 == IF top.pc = "action" /\ a.ok THEN a.fs ELSE f
    IN  CASE o.kind = "await" -> RunAlone(Append(rest, o.frame), NoRet, rs1, f1, t)
          [] o.kind = "call" ->
                RunAlone(Append(Append(rest, o.frame),
                                ExecBegin(0, o.child.input, o.child.name, rs1)),
                         NoRet, Tested(rs1, o.child.input), f1, t)
          [] OTHER ->
                LET settled == IF o.kind = "return"
                               THEN [kind |-> "entry", value |-> o.entry]
                               ELSE [kind |-> "error", value |-> o.error]
                IN  IF rest = <<>> THEN settled
                    ELSE RunAlone(rest, settled, rs1, f1, t)

ExecAlone(input, name, rs, f, t) ==
    RunAlone(<<ExecBegin(0, input, name, rs)>>, NoRet, Tested(rs, input), f, t)

\* The rule set as Pipeline.build left it.
AsBuilt ==
    [i \in DOMAIN ruleSet |->
        PipelineBuilderAdd(added[i].script.regex, added[i].script.build).rule]

\* C20: calls on one Pipeline that overlap in time, the actions writing no
\* file and the files unchanged, each settle as the same call does when
\* run alone on the Pipeline as built, and when no call is in progress the
\* rule set and its rules are as they were built.
C20_CallsIndependent ==
    /\ (phase = "ready" /\ stack = <<>> /\ parked = <<>>) => ruleSet = AsBuilt
    /\ \A k \in DOMAIN results : \A x \in Events("exec") :
          x.id = results[k].id =>
              [kind |-> results[k].kind, value |-> results[k].value]
                  = ExecAlone(x.input, x.name, AsBuilt, x.fs, now)

----------------------------------------------------------------------------
\* The directories above path, nearest last.
Ancestors(path) == {SubSeq(path, 1, k) : k \in 0..(Len(path) - 1)}

\* C21: writeFilep's mkdirp terminates for a path whose directory, and
\* possibly ancestors of it, are missing, and when it returns they all
\* exist as directories, also when another process creates some of them
\* meanwhile; in both variants of mkdirp.
C21_MkdirpTerminates ==
    /\ [](\A i \in DOMAIN results :
            results[i].kind = "value" =>
                \A d \in Ancestors(results[i].path) :
                    d \in DOMAIN results[i].fs /\ IsDirectory(results[i].fs, d))
    /\ (stack # <<>>) ~> (stack = <<>>)

----------------------------------------------------------------------------
\* C22: when a resolved dependency entry carries no mtime (an action made
\* it from bytes or text), the invocation that has resolved all its
\* dependencies, for a rule with an action and a file not dated after the
\* clock, invokes the action and does not skip it, whatever the file's mtime.
C22_RebuildPropagates ==
    \A d \in Events("done") :
        (/\ \E r \in Events("resolved") : r.id = d.id /\ r.entry.mtime = 0
         /\ DependenciesResolved(d.id)
         /\ RuleOf(d.id).action # NullAction
         /\ \A e \in Events("probe") : \A c \in Events("context") :
               (e.id = d.id /\ c.id = d.id) => e.mtime <= c.at)
        => /\ \E a \in Events("action") : a.id = d.id
           /\ \A k \in Events("skip") : k.id # d.id

\* A target whose file is newer than the one dependency that is a file is
\* rebuilt because its other dependency was generated.
C22_Witness ==
    \E a \in Events("action") : \E d \in Events("done") :
        /\ d.id = a.id
        /\ a.T # 0
        /\ \E r \in Events("resolved") : r.id = a.id /\ r.entry.mtime = 0
        /\ \E r \in Events("resolved") :
              r.id = a.id /\ r.entry.mtime # 0 /\ r.entry.mtime < a.T

----------------------------------------------------------------------------
\* C23: when an invocation of exec decides about its target (it skips the
\* action, invokes it, or fails for want of one), every dependency the
\* rule yielded has been resolved by a recursive exec that returned, and
\* everything those invocations did, their actions included, lies before
\* the decision.
C23_DependenciesFirst ==
    LET decidedAt == {i \in DOMAIN log : log[i].ev \in {"skip", "action", "noaction"}}
    IN  \A i \in decidedAt :
            LET children == {c.id : c \in {e \in Events("call") : e.parent = log[i].id}}
            IN  /\ DependenciesResolved(log[i].id)
                /\ \A j \in (i + 1)..Len(log) :
                      /\ ~(log[j].ev = "call" /\ log[j].parent = log[i].id)
                      /\ ~(log[j].ev \in {"probe", "action", "skip", "done"}
                             /\ log[j].id \in children)

\* An up-to-date target is skipped after its dependency was resolved, and a
\* target whose rule has no action fails after the action of its stale
\* dependency was invoked.
C23_Witness ==
    /\ \E k \in Events("skip") : \E c \in Events("call") : c.parent = k.id
    /\ \E e \in Events("noaction") : \E c \in Events("call") : \E a \in Events("action") :
          c.parent = e.id /\ a.id = c.id

----------------------------------------------------------------------------
\* The pairs of consecutive top-level calls for the same target, the first
\* of which invoked actions.store, which completed, on dependencies that
\* are all leaf files found on disk.
StoredThenAgain ==
    {k \in DOMAIN results :
        /\ k + 1 \in DOMAIN results
        /\ results[k + 1].input = results[k].input
        /\ results[k].kind = "entry"
        /\ \E a \in Events("action") :
              a.id = results[k].id /\ ruleSet[a.rule].action = [act |-> "store"]
        /\ \A r \in Events("resolved") :
              r.id = results[k].id =>
                  Matching(r.dependency.value) = {} /\ r.entry.mtime # 0}

\* The second call of the pair found the target up to date.
Converged(k) ==
    /\ \E e \in Events("skip") : e.id = results[k + 1].id
    /\ \A a \in Events("action") : a.id # results[k + 1].id

\* C24 as stated: after exec(p) has run the store action for a stale target
\* whose dependencies are pre-existing leaf files, the next exec(p), no file
\* having changed, finds p up to date and does not invoke the action.
C24_StoreConverges == \A k \in StoredThenAgain : Converged(k)

\* C24 amended: it does so when store wrote the file of the target itself
\* (the name passed to exec is the target's path) and every dependency is
\* older than that write; a dependency dated at the time of the write, or a
\* store under another name, leaves the target stale.
C24_ConvergesWhenOlder ==
    \A k \in StoredThenAgain :
        LET p == results[k].input
            written == FileAt(results[k].fs, p).mtime
        IN  IF /\ results[k].name = p
               /\ \A r \in Events("resolved") :
                     r.id = results[k].id => r.entry.mtime < written
            THEN Converged(k)
            ELSE \E a \in Events("action") : a.id = results[k + 1].id

\* lib.js is stored from an older app.js, and the next exec skips it.
C24_Witness ==
    \E k \in StoredThenAgain :
        /\ results[k].name = results[k].input
        /\ FileAt(results[k].fs, results[k].input).contents = FileAt(results[k].fs, AppJs).contents
        /\ Converged(k)

----------------------------------------------------------------------------
\* C25: whatever the roles of the resolved dependencies are called, the
\* context's entries are all the resolved entries in yield order, its name
\* is the name passed to exec, and its mtime is the timestamp composed of
\* those entries.
C25_BindingKeepsContext ==
    \A e \in Events("constructed") :
        LET es == [i \in DOMAIN e.entries |-> e.entries[i].entry]
        IN  /\ Read(e.context, "entries").type = "own"
            /\ Read(e.context, "entries").value = es
            /\ Read(e.context, "name").type = "own"
            /\ Read(e.context, "name").value = e.name
            /\ Read(e.context, "mtime").value = ComposeMTime(es, e.at)

====
